---- MODULE Spec2Model ----
(***************************************************************************)
(* Authorization core of the ERP backend: token service, identity          *)
(* resolution (authenticateJWT), the authorization predicates,            *)
(* membership lookup (Database.isUserLinkedToDatabase) and the generic     *)
(* error handler of app.js, over the users, databases and user_databases   *)
(* tables of pos-schema.sql and the model functions that write them.       *)
(*                                                                         *)
(* Spec is the middleware stack serving requests while other callers add   *)
(* memberships and remove or update users. DataSpec is the model functions *)
(* called one after the other on the tables as created, each call's        *)
(* outcome observed in result. StartSpec is startServer of server.js,      *)
(* started and ended any number of times, with the requests that register *)
(* and delete users and delete databases while it listens. UrlSpec is      *)
(* Database.create taken query by query for two concurrent callers,        *)
(* together with Database.update and Database.remove.                      *)
(*                                                                         *)
(* JavaScript values that may be undefined are modelled as optional       *)
(* values: None is undefined, Some(x) is the value x.                      *)
(*                                                                         *)
(* Express is taken to forward both a synchronous throw and a rejected     *)
(* promise of a middleware to the error handler, as the route files        *)
(* (async handlers that throw without try/catch) rely on.                  *)
(***************************************************************************)
EXTENDS Integers, Sequences, FiniteSets, TLC

None == <<>>
Some(x) == <<x>>

\* ------------------------------------------------------------------ bounds
\* largest database id of the model
MaxDbId == 2
\* clock reading (seconds) when a token is signed
Now == 1
\* largest user id of the model
MaxUserId == 1

\* ------------------------------------------------------------ value spaces
UserIds == 1..MaxUserId
DbIds == 1..MaxDbId
Emails == {"a@x.io", "A@x.io"}
UserRoles == {"super_admin", "user"}
Keys == {"SECRET_KEY", "other-key"}
SECRET_KEY == "SECRET_KEY"

\* rows of the users table a token may be created for
UserRows == [id : UserIds, email : Emails, role : UserRoles]

\* ----------------------------------------------------------------- errors
\* UnauthorizedError of expressError.js: status 401
UnauthorizedStatus == 401
DefaultUnauthorizedMessage == "Unauthorized"
UnauthorizedError(msg) == [status |-> Some(UnauthorizedStatus), message |-> msg]
\* the error db.query rejects with when the storage cannot be reached;
\* it carries no status property
StorageError == [status |-> None, message |-> "connect ECONNREFUSED"]

\* ---------------------------------------------------------- token service
\* jwt.sign(payload, key): the payload gains the iat claim
jwtSign(payload, key) ==
  [wellformed |-> TRUE, payload |-> [payload EXCEPT !.iat = Some(Now)], key |-> key]

\* jwt.verify(token, key): the payload, or a thrown error (None here)
jwtVerify(tok, key) ==
  IF tok.wellformed /\ tok.key = key THEN Some(tok.payload) ELSE None

\* createToken that also puts the numeric id in the token
createToken_WithId(user) ==
  jwtSign([email |-> Some(user.email), role |-> Some(user.role),
           id |-> Some(user.id), iat |-> None], SECRET_KEY)

\* createToken signing the default role whatever the user's role
createToken_DefaultRole(user) ==
  jwtSign([email |-> Some(user.email), role |-> Some("user"),
           id |-> None, iat |-> None], SECRET_KEY)

createToken(user) ==
  jwtSign([email |-> Some(user.email), role |-> Some(user.role),
           id |-> None, iat |-> None], SECRET_KEY)

\* tokens a client may hold that createToken did not issue: signed by
\* another holder of a key, with or without an id claim
ForeignPayloads ==
  {[email |-> e, role |-> Some(r), id |-> None, iat |-> Some(Now)] :
     e \in {None, Some("")}, r \in UserRoles}
  \cup
  {[email |-> Some("a@x.io"), role |-> Some(r), id |-> Some(i), iat |-> Some(Now)] :
     i \in {0} \cup UserIds, r \in UserRoles}

IssuedTokens == {createToken(u) : u \in UserRows}
MalformedToken ==
  [wellformed |-> FALSE,
   payload |-> [email |-> None, role |-> None, id |-> None, iat |-> None],
   key |-> "other-key"]
Tokens ==
  IssuedTokens
  \cup {[wellformed |-> TRUE, payload |-> t.payload, key |-> "other-key"] : t \in IssuedTokens}
  \cup {[wellformed |-> TRUE, payload |-> p, key |-> k] : p \in ForeignPayloads, k \in Keys}
  \cup {MalformedToken}

\* -------------------------------------------------------- request inputs
\* The Authorization header is the text pre \o text(tok): pre is the text in
\* front of the token, one character per element.
BearerSp == <<"B", "e", "a", "r", "e", "r", " ">>
SchemeTexts ==
  { None,
    <<"b", "e", "a", "r", "e", "r", " ">>,
    <<"B", "E", "A", "R", "E", "R", " ">>,
    <<"B", "e", "a", "r", "e", "r", " ", " ">>,
    <<"B", "a", "s", "i", "c", " ">> }
SampleToken == createToken([id |-> 1, email |-> "a@x.io", role |-> "super_admin"])
AuthorizationHeaders ==
  {[pre |-> BearerSp, tok |-> t] : t \in Tokens}
  \cup {[pre |-> p, tok |-> SampleToken] : p \in SchemeTexts}

Digits == <<"0", "1", "2", "3", "4", "5", "6", "7", "8", "9">>
\* decimal text of a one-digit number, and back (the database-id header is
\* text, user_databases.database_id is an INTEGER)
ToText(n) == Digits[n + 1]
ToInteger(s) == (CHOOSE i \in 1..Len(Digits) : Digits[i] = s) - 1

DbIdTexts == {ToText(d) : d \in DbIds}
Gates == {"ensureLoggedIn", "ensureSuperAdmin", "ensureCorrectUser",
          "ensureSuperAdminOrCorrectUser", "ensureDatabaseUser"}
ParamNames == {"email", "databaseId", "id", "userId"}
NoParams == [email |-> None, databaseId |-> None, id |-> None, userId |-> None]

\* the routes: the gate in front of the handler and the parameters of the path
UsersRoutes ==
  { [route |-> "GET /users", gate |-> "ensureSuperAdmin", paramNames |-> {}],
    [route |-> "GET /users/:email", gate |-> "ensureCorrectUser", paramNames |-> {"email"}],
    [route |-> "PATCH /users/:email", gate |-> "ensureCorrectUser", paramNames |-> {"email"}],
    [route |-> "DELETE /users/:email", gate |-> "ensureSuperAdminOrCorrectUser",
     paramNames |-> {"email"}] }
DatabasesRoutes ==
  { [route |-> "GET /databases", gate |-> "ensureSuperAdmin", paramNames |-> {}],
    [route |-> "GET /databases/user/:userId", gate |-> "ensureSuperAdminOrCorrectUser",
     paramNames |-> {"userId"}],
    [route |-> "GET /databases/:id", gate |-> "ensureSuperAdminOrCorrectUser",
     paramNames |-> {"id"}],
    [route |-> "POST /databases", gate |-> "ensureSuperAdmin", paramNames |-> {}],
    [route |-> "PATCH /databases/:id", gate |-> "ensureSuperAdminOrCorrectUser",
     paramNames |-> {"id"}],
    [route |-> "DELETE /databases/:id", gate |-> "ensureSuperAdminOrCorrectUser",
     paramNames |-> {"id"}] }
AppsRoutes ==
  { [route |-> "GET /apps", gate |-> "ensureDatabaseUser", paramNames |-> {}] }
\* the gates as a route may use them: ensureLoggedIn in front of a handler,
\* ensureDatabaseUser on a path that has a :databaseId parameter
GatedRoutes ==
  { [route |-> "ensureLoggedIn", gate |-> "ensureLoggedIn", paramNames |-> {}],
    [route |-> "ensureDatabaseUser /:databaseId", gate |-> "ensureDatabaseUser",
     paramNames |-> {"databaseId"}] }
Routes == UsersRoutes \cup DatabasesRoutes \cup AppsRoutes \cup GatedRoutes

\* the values a path parameter takes in the requests of the model
ParamValues(name) ==
  CASE name = "email" -> Emails
    [] name = "databaseId" -> DbIdTexts
    [] OTHER -> {ToText(1)}
\* req.params of a request to the route rt
ParamsOf(rt) ==
  IF rt.paramNames = {}
  THEN {NoParams}
  ELSE UNION {{[NoParams EXCEPT ![n] = Some(v)] : v \in ParamValues(n)} : n \in rt.paramNames}
\* the database-id header of a request to the route rt
DbIdHeadersOf(rt) ==
  IF rt.gate = "ensureDatabaseUser"
  THEN {None, Some("")} \cup {Some(d) : d \in DbIdTexts}
  ELSE {None}
\* the shapes of request the routes receive: the route, its gate, its path
\* parameters and the database-id header
RequestShapes ==
  UNION {{[route |-> rt.route, gate |-> rt.gate, params |-> p, dbIdHeader |-> h] :
            p \in ParamsOf(rt), h \in DbIdHeadersOf(rt)} : rt \in Routes}

\* ------------------------------------------------------------------ state
Slots == {"req", "probe"}

VARIABLES
  pc,             \* position of each request in the middleware stack
  request,        \* the request received: authorization, shape
  locals,         \* res.locals of each request
  pending,        \* the error handed to the error handler, if any
  lookup,         \* the membership query of a request: arguments, state
  log,            \* what each layer signalled, in order
  response,       \* the response sent, if any
  user_databases, \* rows of the user_databases table
  users,          \* rows of the users table
  databases,      \* rows of the databases table
  users_id_seq,   \* next value of the sequence behind users.id
  databases_id_seq, \* next value of the sequence behind databases.id
  result,         \* what the last observed call of a model function gave
  server,         \* the server process: its position in startServer, its locals
  creating        \* the calls of Database.create between their two queries

vars == <<pc, request, locals, pending, lookup, log, response, user_databases,
          users, databases, users_id_seq, databases_id_seq, result, server, creating>>
\* the server process and the calls in flight
process == <<server, creating>>
\* what the middleware stack never writes
others == <<users, databases, users_id_seq, databases_id_seq, result, process>>
\* the state of the requests
requests == <<pc, request, locals, pending, lookup, log, response>>

\* ------------------------------------------------- signals of a middleware
Proceed == [via |-> "next", err |-> None]
NextWith(e) == [via |-> "next", err |-> Some(e)]
Throw(e) == [via |-> "throw", err |-> Some(e)]
\* a throw inside an async middleware: its promise is rejected
Reject(e) == [via |-> "reject", err |-> Some(e)]

\* ------------------------------------------------------ identity resolution
\* the replacement with the pattern /^Bearer /
StripBearer_CapitalOnly(pre) ==
  IF Len(pre) >= Len(BearerSp)
     /\ \A i \in 1..Len(BearerSp) : pre[i] = BearerSp[i]
  THEN SubSeq(pre, Len(BearerSp) + 1, Len(pre))
  ELSE pre

\* authHeader.replace(/^[Bb]earer /, "")
StripBearer(pre) ==
  IF Len(pre) >= Len(BearerSp)
     /\ pre[1] \in {"B", "b"}
     /\ \A i \in 2..Len(BearerSp) : pre[i] = BearerSp[i]
  THEN SubSeq(pre, Len(BearerSp) + 1, Len(pre))
  ELSE pre

\* String.prototype.trim on the text in front of the token
RECURSIVE TrimStart(_)
TrimStart(pre) ==
  IF pre # <<>> /\ Head(pre) = " " THEN TrimStart(Tail(pre)) ELSE pre

\* jwt.verify of the text that is left: text in front of the token makes it
\* no JWT
VerifyText(pre, tok) ==
  IF pre = <<>> THEN jwtVerify(tok, SECRET_KEY) ELSE None

\* authenticateJWT without its try/catch: the verification error escapes
authenticateJWT_NoCatch(authHeader) ==
  IF authHeader = None
  THEN [user |-> None, signal |-> Proceed]
  ELSE LET v == VerifyText(TrimStart(StripBearer(authHeader[1].pre)), authHeader[1].tok)
       IN IF v = None
          THEN [user |-> None,
                signal |-> Throw([status |-> None, message |-> "invalid token"])]
          ELSE [user |-> v, signal |-> Proceed]

\* authenticateJWT decoding the token without checking its signature
authenticateJWT_Decode(authHeader) ==
  IF authHeader = None
  THEN [user |-> None, signal |-> Proceed]
  ELSE LET token == TrimStart(StripBearer(authHeader[1].pre))
       IN [user |-> IF token = <<>> /\ authHeader[1].tok.wellformed
                    THEN Some(authHeader[1].tok.payload) ELSE None,
           signal |-> Proceed]

\* authenticateJWT attaching the claims only while the users table has a row
\* for the email of the token
authenticateJWT_KnownUser(authHeader) ==
  IF authHeader = None
  THEN [user |-> None, signal |-> Proceed]
  ELSE LET token == TrimStart(StripBearer(authHeader[1].pre))
           v == VerifyText(token, authHeader[1].tok)
       IN [user |-> IF v # None /\ \E row \in users : Some(row.email) = v[1].email
                    THEN v ELSE None,
           signal |-> Proceed]

\* res.locals.user after authenticateJWT, and what it signals
authenticateJWT(authHeader) ==
  IF authHeader = None
  THEN [user |-> None, signal |-> Proceed]
  ELSE LET token == TrimStart(StripBearer(authHeader[1].pre))
       IN [user |-> VerifyText(token, authHeader[1].tok), signal |-> Proceed]

\* ------------------------------------------------ authorization predicates
\* res.locals.user?.f
Field(user, f) == IF user = None THEN None ELSE user[1][f]
\* truthiness of an optional string, of an optional number
TruthyText(v) == v # None /\ v[1] # ""
TruthyNumber(v) == v # None /\ v[1] # 0

\* ensureSuperAdmin accepting any identity that has a role
ensureSuperAdmin_AnyRole(user) ==
  IF TruthyText(Field(user, "role"))
  THEN Proceed
  ELSE Throw(UnauthorizedError(DefaultUnauthorizedMessage))

ensureSuperAdmin(user) ==
  IF Field(user, "role") = Some("super_admin")
  THEN Proceed
  ELSE Throw(UnauthorizedError(DefaultUnauthorizedMessage))

\* ensureLoggedIn accepting any identity, with or without an email
ensureLoggedIn_AnyIdentity(user) ==
  IF user # None
  THEN Proceed
  ELSE Throw(UnauthorizedError(DefaultUnauthorizedMessage))

ensureLoggedIn(user) ==
  IF TruthyText(Field(user, "email"))
  THEN Proceed
  ELSE Throw(UnauthorizedError(DefaultUnauthorizedMessage))

\* lower-casing of the emails of the model
ToLowerCase(v) == IF v = Some("A@x.io") THEN Some("a@x.io") ELSE v

\* ensureCorrectUser comparing the emails without regard to case
ensureCorrectUser_IgnoreCase(user, params) ==
  LET currentUser == Field(user, "email")
  IN IF TruthyText(currentUser) /\ ToLowerCase(currentUser) = ToLowerCase(params.email)
     THEN Proceed
     ELSE Reject(UnauthorizedError(DefaultUnauthorizedMessage))

ensureCorrectUser(user, params) ==
  LET currentUser == Field(user, "email")
  IN IF TruthyText(currentUser) /\ currentUser = params.email
     THEN Proceed
     ELSE Reject(UnauthorizedError(DefaultUnauthorizedMessage))

\* ensureSuperAdminOrCorrectUser asking for both conditions
ensureSuperAdminOrCorrectUser_And(user, params) ==
  LET currentUser == Field(user, "email")
      isSuperAdmin == Field(user, "role") = Some("super_admin")
  IN IF isSuperAdmin /\ (TruthyText(currentUser) /\ currentUser = params.email)
     THEN Proceed
     ELSE Throw(UnauthorizedError(DefaultUnauthorizedMessage))

ensureSuperAdminOrCorrectUser(user, params) ==
  LET currentUser == Field(user, "email")
      isSuperAdmin == Field(user, "role") = Some("super_admin")
  IN IF isSuperAdmin \/ (TruthyText(currentUser) /\ currentUser = params.email)
     THEN Proceed
     ELSE Throw(UnauthorizedError(DefaultUnauthorizedMessage))

\* ensureDatabaseUser giving one message for both of its early refusals
ensureDatabaseUserChecks_OneMessage(user, dbIdHeader) ==
  LET userId == Field(user, "id")
      databaseId == dbIdHeader
  IN IF ~TruthyNumber(userId) \/ ~TruthyText(databaseId)
     THEN Some(UnauthorizedError(DefaultUnauthorizedMessage))
     ELSE None

\* ensureDatabaseUser up to its await: None when the membership query is
\* issued, else the error its catch hands to next
ensureDatabaseUserChecks(user, dbIdHeader) ==
  LET userId == Field(user, "id")
      databaseId == dbIdHeader
  IN IF ~TruthyNumber(userId)
     THEN Some(UnauthorizedError("User authentication required."))
     ELSE IF ~TruthyText(databaseId)
     THEN Some(UnauthorizedError("Database connection required."))
     ELSE None

\* isUserLinkedToDatabase answering false when the query fails
isUserLinkedToDatabase_Swallow(userId, databaseId, table, reachable) ==
  [threw |-> None,
   value |-> reachable /\ {row \in table : row.user_id = userId
                                           /\ row.database_id = ToInteger(databaseId)} # {}]

\* isUserLinkedToDatabase selecting by user_id alone
isUserLinkedToDatabase_AnyDatabase(userId, databaseId, table, reachable) ==
  IF reachable
  THEN [threw |-> None, value |-> {row \in table : row.user_id = userId} # {}]
  ELSE [threw |-> Some(StorageError), value |-> FALSE]

\* Database.isUserLinkedToDatabase: rows.length > 0, or the query's error
\* rethrown
isUserLinkedToDatabase(userId, databaseId, table, reachable) ==
  IF reachable
  THEN [threw |-> None,
        value |-> {row \in table : row.user_id = userId
                                   /\ row.database_id = ToInteger(databaseId)} # {}]
  ELSE [threw |-> Some(StorageError), value |-> FALSE]

\* ensureDatabaseUser after its await
ensureDatabaseUserResume(linked) ==
  IF linked.threw # None
  THEN NextWith(linked.threw[1])
  ELSE IF ~linked.value
  THEN NextWith(UnauthorizedError("User not authorized to access this database."))
  ELSE Proceed

\* the error handler answering 500 whatever the error's status
errorHandler_Always500(err) ==
  [status |-> 500, message |-> Some(err.message)]

\* the generic error handler of app.js
errorHandler(err) ==
  [status |-> IF TruthyNumber(err.status) THEN err.status[1] ELSE 500,
   message |-> Some(err.message)]

\* the INSERT into a user_databases table that has no primary key
addUserToDatabase_NoPrimaryKey(table, userId, databaseId, role) ==
  table \cup {[user_id |-> userId, database_id |-> databaseId, role |-> role]}

\* Database.addUserToDatabase: the INSERT, refused by the primary key
\* (user_id, database_id) when the pair is already there
addUserToDatabase(table, userId, databaseId, role) ==
  IF \E row \in table : row.user_id = userId /\ row.database_id = databaseId
  THEN table
  ELSE table \cup {[user_id |-> userId, database_id |-> databaseId, role |-> role]}

\* -------------------------------------------------------------- the tables
DbRoles == {"admin", "member"}
Url(n) == <<"postgresql://host/db", n>>
Urls == {Url(d) : d \in DbIds}

\* the foreign keys of user_databases: user_id REFERENCES users(id),
\* database_id REFERENCES databases(id)
ForeignKeysHold(userTable, databaseTable, userId, databaseId) ==
  /\ \E row \in userTable : row.id = userId
  /\ \E row \in databaseTable : row.id = databaseId

\* User.register: the duplicate check, then the INSERT taking the next id
register(userTable, seq, email, role) ==
  IF \E row \in userTable : row.email = email
  THEN [users |-> userTable, seq |-> seq, outcome |-> "BadRequestError"]
  ELSE [users |-> userTable \cup {[id |-> seq, email |-> email, role |-> role]},
        seq |-> seq + 1, outcome |-> "returned"]

\* User.remove: the DELETE, which takes the user's rows of user_databases
\* with it (ON DELETE CASCADE)
userRemove(userTable, memberTable, email) ==
  LET gone == {row \in userTable : row.email = email}
  IN IF gone = {}
     THEN [users |-> userTable, user_databases |-> memberTable, outcome |-> "NotFoundError"]
     ELSE [users |-> userTable \ gone,
           user_databases |-> {m \in memberTable : \A row \in gone : m.user_id # row.id},
           outcome |-> "returned"]

\* User.update(email, {role}): the UPDATE of the columns given
userUpdate(userTable, email, role) ==
  IF ~\E row \in userTable : row.email = email
  THEN [users |-> userTable, outcome |-> "NotFoundError"]
  ELSE [users |-> {IF row.email = email THEN [row EXCEPT !.role = role] ELSE row :
                     row \in userTable},
        outcome |-> "returned"]

\* Database.create: the duplicate check on the url, then the INSERT
databaseCreate(databaseTable, seq, url) ==
  IF \E row \in databaseTable : row.url = url
  THEN [databases |-> databaseTable, seq |-> seq, outcome |-> "BadRequestError"]
  ELSE [databases |-> databaseTable \cup {[id |-> seq, url |-> url]},
        seq |-> seq + 1, outcome |-> "returned"]

\* Database.remove with user_databases.database_id declared ON DELETE CASCADE
databaseRemove_Cascade(databaseTable, memberTable, id) ==
  IF ~\E row \in databaseTable : row.id = id
  THEN [databases |-> databaseTable, user_databases |-> memberTable,
        outcome |-> "NotFoundError"]
  ELSE [databases |-> {row \in databaseTable : row.id # id},
        user_databases |-> {m \in memberTable : m.database_id # id},
        outcome |-> "returned"]

\* Database.remove: the DELETE, which the rows of user_databases that refer
\* to the database make fail (ON DELETE RESTRICT)
databaseRemove(databaseTable, memberTable, id) ==
  IF ~\E row \in databaseTable : row.id = id
  THEN [databases |-> databaseTable, user_databases |-> memberTable,
        outcome |-> "NotFoundError"]
  ELSE IF \E m \in memberTable : m.database_id = id
  THEN [databases |-> databaseTable, user_databases |-> memberTable,
        outcome |-> "foreign_key_violation"]
  ELSE [databases |-> {row \in databaseTable : row.id # id},
        user_databases |-> memberTable, outcome |-> "returned"]

\* what a call gave, as its caller sees it
Outcome(op, email, userId, databaseId, outcome) ==
  Some([op |-> op, email |-> email, userId |-> userId, databaseId |-> databaseId,
        outcome |-> outcome])

\* ------------------------------------------------------ the server process
\* callers of Database.create that may be between its two queries
Callers == {"c1", "c2"}
NoCalls == [c \in Callers |-> None]
\* process.env.SUPER_ADMIN_EMAIL
SUPER_ADMIN_EMAIL == "a@x.io"
\* url (and name) of the database createMainDatabase creates
MainUrl == Url(0)
Stopped == [pc |-> "stopped", user |-> None, mainDb |-> None]
Listening == [pc |-> "listening", user |-> None, mainDb |-> None]

\* ---------------------------------------------------------------- actions
NoRequest ==
  [authorization |-> None, route |-> "none", gate |-> "none", params |-> NoParams,
   dbIdHeader |-> None]

Init ==
  /\ pc = [r \in Slots |-> "idle"]
  /\ request = [r \in Slots |-> NoRequest]
  /\ locals = [r \in Slots |-> [user |-> None]]
  /\ pending = [r \in Slots |-> None]
  /\ lookup = [r \in Slots |-> None]
  /\ log = [r \in Slots |-> <<>>]
  /\ response = [r \in Slots |-> None]
  /\ user_databases = {}
  /\ users = {[id |-> 1, email |-> "a@x.io", role |-> "user"]}
  /\ users_id_seq = 2
  /\ databases = {[id |-> d, url |-> Url(d)] : d \in DbIds}
  /\ databases_id_seq = MaxDbId + 1
  /\ result = None
  /\ server = Listening
  /\ creating = NoCalls

\* a layer has signalled: Express runs the next layer of the stack, or the
\* error handler when the layer threw, rejected or called next(err)
Signalled(r, mw, signal, nextLayer) ==
  /\ log' = [log EXCEPT ![r] = Append(@, [mw |-> mw, via |-> signal.via, err |-> signal.err])]
  /\ pc' = [pc EXCEPT ![r] = IF signal.err = None THEN nextLayer ELSE "error"]
  /\ pending' = [pending EXCEPT ![r] = signal.err]

\* the routers mounted before app.use(authenticateJWT)
FirstLayer_Router == "gate"

\* the first layer of the stack a request meets: app.use(authenticateJWT)
\* comes before the routers are mounted
FirstLayer == "authenticateJWT"

\* a client sends a request
Receive ==
  /\ pc["req"] = "idle"
  /\ \E h \in {None} \cup {Some(a) : a \in AuthorizationHeaders}, shape \in RequestShapes :
       request' = [request EXCEPT !["req"] =
                     [authorization |-> h, route |-> shape.route, gate |-> shape.gate,
                      params |-> shape.params, dbIdHeader |-> shape.dbIdHeader]]
  /\ pc' = [pc EXCEPT !["req"] = FirstLayer]
  /\ UNCHANGED <<locals, pending, lookup, log, response, user_databases, others>>

\* a client sends the same request without its Authorization header
ReceiveProbe ==
  /\ pc["probe"] = "idle"
  /\ pc["req"] # "idle"
  /\ request' = [request EXCEPT !["probe"] = [request["req"] EXCEPT !.authorization = None]]
  /\ pc' = [pc EXCEPT !["probe"] = FirstLayer]
  /\ UNCHANGED <<locals, pending, lookup, log, response, user_databases, others>>

\* a client sends the same request once more, after the first was answered
ReceiveAgain ==
  /\ pc["probe"] = "idle"
  /\ pc["req"] = "done"
  /\ request' = [request EXCEPT !["probe"] = request["req"]]
  /\ pc' = [pc EXCEPT !["probe"] = FirstLayer]
  /\ UNCHANGED <<locals, pending, lookup, log, response, user_databases, others>>

\* app.use(authenticateJWT)
StepAuthenticateJWT(r) ==
  /\ pc[r] = "authenticateJWT"
  /\ LET res == authenticateJWT(request[r].authorization)
     IN /\ locals' = [locals EXCEPT ![r].user = res.user]
        /\ Signalled(r, "authenticateJWT", res.signal, "gate")
  /\ UNCHANGED <<request, lookup, response, user_databases, others>>

StepEnsureLoggedIn(r) ==
  /\ pc[r] = "gate"
  /\ request[r].gate = "ensureLoggedIn"
  /\ Signalled(r, "ensureLoggedIn", ensureLoggedIn(locals[r].user), "handler")
  /\ UNCHANGED <<request, locals, lookup, response, user_databases, others>>

StepEnsureSuperAdmin(r) ==
  /\ pc[r] = "gate"
  /\ request[r].gate = "ensureSuperAdmin"
  /\ Signalled(r, "ensureSuperAdmin", ensureSuperAdmin(locals[r].user), "handler")
  /\ UNCHANGED <<request, locals, lookup, response, user_databases, others>>

StepEnsureCorrectUser(r) ==
  /\ pc[r] = "gate"
  /\ request[r].gate = "ensureCorrectUser"
  /\ Signalled(r, "ensureCorrectUser",
               ensureCorrectUser(locals[r].user, request[r].params), "handler")
  /\ UNCHANGED <<request, locals, lookup, response, user_databases, others>>

StepEnsureSuperAdminOrCorrectUser(r) ==
  /\ pc[r] = "gate"
  /\ request[r].gate = "ensureSuperAdminOrCorrectUser"
  /\ Signalled(r, "ensureSuperAdminOrCorrectUser",
               ensureSuperAdminOrCorrectUser(locals[r].user, request[r].params), "handler")
  /\ UNCHANGED <<request, locals, lookup, response, user_databases, others>>

\* ensureDatabaseUser up to the await of Database.isUserLinkedToDatabase
StepEnsureDatabaseUser(r) ==
  /\ pc[r] = "gate"
  /\ request[r].gate = "ensureDatabaseUser"
  /\ LET failed == ensureDatabaseUserChecks(locals[r].user, request[r].dbIdHeader)
     IN IF failed = None
        THEN /\ lookup' = [lookup EXCEPT ![r] =
                             Some([userId |-> locals[r].user[1].id[1],
                                   databaseId |-> request[r].dbIdHeader[1],
                                   state |-> "pending"])]
             /\ pc' = [pc EXCEPT ![r] = "lookup"]
             /\ UNCHANGED <<log, pending>>
        ELSE /\ Signalled(r, "ensureDatabaseUser", NextWith(failed[1]), "handler")
             /\ UNCHANGED lookup
  /\ UNCHANGED <<request, locals, response, user_databases, others>>

\* the membership query completes, or fails because the storage cannot be
\* reached, and ensureDatabaseUser resumes
CompleteLookup(r) ==
  /\ pc[r] = "lookup"
  /\ \E reachable \in BOOLEAN :
       LET linked == isUserLinkedToDatabase(lookup[r][1].userId, lookup[r][1].databaseId,
                                            user_databases, reachable)
       IN /\ Signalled(r, "ensureDatabaseUser", ensureDatabaseUserResume(linked), "handler")
          /\ lookup' = [lookup EXCEPT ![r] =
                          Some([@[1] EXCEPT !.state = IF reachable THEN "answered" ELSE "failed"])]
  /\ UNCHANGED <<request, locals, response, user_databases, others>>

\* the route handler behind the gate runs and answers
RouteHandler(r) ==
  /\ pc[r] = "handler"
  /\ log' = [log EXCEPT ![r] = Append(@, [mw |-> "handler", via |-> "respond", err |-> None])]
  /\ response' = [response EXCEPT ![r] = Some([status |-> 200, message |-> None])]
  /\ pc' = [pc EXCEPT ![r] = "done"]
  /\ UNCHANGED <<request, locals, pending, lookup, user_databases, others>>

\* app.use(function (err, req, res, next) ...)
ErrorHandler(r) ==
  /\ pc[r] = "error"
  /\ response' = [response EXCEPT ![r] = Some(errorHandler(pending[r][1]))]
  /\ pc' = [pc EXCEPT ![r] = "done"]
  /\ UNCHANGED <<request, locals, pending, lookup, log, user_databases, others>>

\* Database.addUserToDatabase(userId, databaseId, role); observed says
\* whether the caller's view of the outcome is kept in result
AddUserToDatabaseAs(u, d, role, observed) ==
  LET fk == ForeignKeysHold(users, databases, u, d)
      after == IF fk THEN addUserToDatabase(user_databases, u, d, role) ELSE user_databases
      outcome == IF ~fk THEN "foreign_key_violation"
                 ELSE IF after = user_databases THEN "unique_violation"
                 ELSE "returned"
  IN /\ user_databases' = after
     /\ result' = IF observed
                  THEN Outcome("Database.addUserToDatabase", None, Some(u), Some(d), outcome)
                  ELSE result
     /\ UNCHANGED <<requests, process, users, databases, users_id_seq, databases_id_seq>>

\* Database.addUserToDatabase(userId, databaseId), role defaulting to admin
AddUserToDatabase ==
  \E u \in UserIds, d \in DbIds : AddUserToDatabaseAs(u, d, "admin", FALSE)

\* User.register({email, role})
Register(email, role, observed) ==
  /\ users_id_seq <= MaxUserId
  /\ LET res == register(users, users_id_seq, email, role)
     IN /\ users' = res.users
        /\ users_id_seq' = res.seq
        /\ result' = IF observed
                     THEN Outcome("User.register", Some(email), None, None, res.outcome)
                     ELSE result
  /\ UNCHANGED <<requests, process, user_databases, databases, databases_id_seq>>

\* User.remove(email)
UserRemove(email, observed) ==
  /\ LET res == userRemove(users, user_databases, email)
     IN /\ users' = res.users
        /\ user_databases' = res.user_databases
        /\ result' = IF observed
                     THEN Outcome("User.remove", Some(email), None, None, res.outcome)
                     ELSE result
  /\ UNCHANGED <<requests, process, users_id_seq, databases, databases_id_seq>>

\* User.update(email, {role})
UserUpdate(email, role, observed) ==
  /\ LET res == userUpdate(users, email, role)
     IN /\ users' = res.users
        /\ result' = IF observed
                     THEN Outcome("User.update", Some(email), None, None, res.outcome)
                     ELSE result
  /\ UNCHANGED <<requests, process, user_databases, users_id_seq, databases, databases_id_seq>>

\* Database.create({url}), one caller at a time
DatabaseCreate(url, observed) ==
  /\ databases_id_seq <= MaxDbId
  /\ LET res == databaseCreate(databases, databases_id_seq, url)
     IN /\ databases' = res.databases
        /\ databases_id_seq' = res.seq
        /\ result' = IF observed
                     THEN Outcome("Database.create", None, None, None, res.outcome)
                     ELSE result
  /\ UNCHANGED <<requests, process, user_databases, users, users_id_seq>>

\* Database.remove(id)
DatabaseRemove(id, observed) ==
  /\ LET res == databaseRemove(databases, user_databases, id)
     IN /\ databases' = res.databases
        /\ user_databases' = res.user_databases
        /\ result' = IF observed
                     THEN Outcome("Database.remove", None, None, Some(id), res.outcome)
                     ELSE result
  /\ UNCHANGED <<requests, process, users, users_id_seq, databases_id_seq>>

Next ==
  \/ Receive
  \/ ReceiveProbe
  \/ ReceiveAgain
  \/ \E r \in Slots : StepAuthenticateJWT(r)
  \/ \E r \in Slots : StepEnsureLoggedIn(r)
  \/ \E r \in Slots : StepEnsureSuperAdmin(r)
  \/ \E r \in Slots : StepEnsureCorrectUser(r)
  \/ \E r \in Slots : StepEnsureSuperAdminOrCorrectUser(r)
  \/ \E r \in Slots : StepEnsureDatabaseUser(r)
  \/ \E r \in Slots : CompleteLookup(r)
  \/ \E r \in Slots : RouteHandler(r)
  \/ \E r \in Slots : ErrorHandler(r)
  \/ AddUserToDatabase
  \/ \E e \in Emails : UserRemove(e, FALSE)
  \/ \E e \in Emails, role \in UserRoles : UserUpdate(e, role, FALSE)

Spec == Init /\ [][Next]_vars

\* ------------------------------------------- the model functions by themselves
\* the tables as pos-schema.sql creates them, and no request
DataInit ==
  /\ pc = [r \in Slots |-> "idle"]
  /\ request = [r \in Slots |-> NoRequest]
  /\ locals = [r \in Slots |-> [user |-> None]]
  /\ pending = [r \in Slots |-> None]
  /\ lookup = [r \in Slots |-> None]
  /\ log = [r \in Slots |-> <<>>]
  /\ response = [r \in Slots |-> None]
  /\ user_databases = {}
  /\ users = {}
  /\ users_id_seq = 1
  /\ databases = {}
  /\ databases_id_seq = 1
  /\ result = None
  /\ server = Stopped
  /\ creating = NoCalls

DataNext ==
  \/ \E e \in Emails : Register(e, "user", TRUE)
  \/ \E e \in Emails : UserRemove(e, TRUE)
  \/ \E url \in Urls : DatabaseCreate(url, TRUE)
  \/ \E d \in DbIds : DatabaseRemove(d, TRUE)
  \/ \E u \in UserIds, d \in DbIds, role \in DbRoles : AddUserToDatabaseAs(u, d, role, TRUE)

DataSpec == DataInit /\ [][DataNext]_vars

\* ------------------------------------------- Database.create, query by query
\* Database.update(id, {url}): the UPDATE of the columns given
databaseUpdate(databaseTable, id, url) ==
  IF ~\E row \in databaseTable : row.id = id
  THEN [databases |-> databaseTable, outcome |-> "NotFoundError"]
  ELSE [databases |-> {IF row.id = id THEN [row EXCEPT !.url = url] ELSE row :
                         row \in databaseTable},
        outcome |-> "returned"]

\* Database.create({url}) by the caller c, first query: the duplicate check;
\* with a row of that url the call throws BadRequestError
DatabaseCreateCheck(c, url) ==
  /\ creating[c] = None
  /\ IF \E row \in databases : row.url = url
     THEN /\ result' = Outcome("Database.create", None, None, None, "BadRequestError")
          /\ UNCHANGED creating
     ELSE /\ creating' = [creating EXCEPT ![c] = Some(url)]
          /\ UNCHANGED result
  /\ UNCHANGED <<requests, server, user_databases, users, users_id_seq, databases,
                 databases_id_seq>>

\* Database.create({url}) by the caller c, second query: the INSERT, which
\* no constraint of the databases table refuses
DatabaseCreateInsert(c) ==
  /\ creating[c] # None
  /\ databases_id_seq <= MaxDbId
  /\ databases' = databases \cup {[id |-> databases_id_seq, url |-> creating[c][1]]}
  /\ databases_id_seq' = databases_id_seq + 1
  /\ creating' = [creating EXCEPT ![c] = None]
  /\ result' = Outcome("Database.create", None, None, Some(databases_id_seq), "returned")
  /\ UNCHANGED <<requests, server, user_databases, users, users_id_seq>>

\* Database.update(id, {url})
DatabaseUpdate(id, url) ==
  /\ LET res == databaseUpdate(databases, id, url)
     IN /\ databases' = res.databases
        /\ result' = Outcome("Database.update", None, None, Some(id), res.outcome)
  /\ UNCHANGED <<requests, process, user_databases, users, users_id_seq, databases_id_seq>>

\* the databases table as pos-schema.sql creates it, and no call in flight
UrlInit ==
  /\ pc = [r \in Slots |-> "idle"]
  /\ request = [r \in Slots |-> NoRequest]
  /\ locals = [r \in Slots |-> [user |-> None]]
  /\ pending = [r \in Slots |-> None]
  /\ lookup = [r \in Slots |-> None]
  /\ log = [r \in Slots |-> <<>>]
  /\ response = [r \in Slots |-> None]
  /\ user_databases = {}
  /\ users = {}
  /\ users_id_seq = 1
  /\ databases = {}
  /\ databases_id_seq = 1
  /\ result = None
  /\ server = Stopped
  /\ creating = NoCalls

UrlNext ==
  \/ \E c \in Callers, url \in Urls : DatabaseCreateCheck(c, url)
  \/ \E c \in Callers : DatabaseCreateInsert(c)
  \/ \E d \in DbIds, url \in Urls : DatabaseUpdate(d, url)
  \/ \E d \in DbIds : DatabaseRemove(d, TRUE)

UrlSpec == UrlInit /\ [][UrlNext]_vars

\* ------------------------------------------------------------- the startup
\* the users of role super_admin
SuperAdmins(userTable) == {row \in userTable : row.role = "super_admin"}
\* ids the sequence behind users.id hands out in StartSpec: the super admin
\* and the users registered since
MaxUserSerial == MaxUserId + 1

\* node server.js: startServer is called
StartServer ==
  /\ server.pc = "stopped"
  /\ server' = [pc |-> "initializeSuperAdmin", user |-> None, mainDb |-> None]
  /\ UNCHANGED <<requests, user_databases, users, databases, users_id_seq,
                 databases_id_seq, result, creating>>

\* User.initializeSuperAdmin: SELECT id FROM users WHERE role='super_admin';
\* with a row it returns undefined and startServer goes on to app.listen
InitializeSuperAdminSelect ==
  /\ server.pc = "initializeSuperAdmin"
  /\ server' = [server EXCEPT !.pc = IF SuperAdmins(users) = {} THEN "register" ELSE "listen"]
  /\ UNCHANGED <<requests, user_databases, users, databases, users_id_seq,
                 databases_id_seq, result, creating>>

\* User.initializeSuperAdmin: this.register({email: SUPER_ADMIN_EMAIL, role:
\* 'super_admin'}); the catch logs what register throws and the function
\* returns undefined
InitializeSuperAdminRegister ==
  /\ server.pc = "register"
  /\ LET res == register(users, users_id_seq, SUPER_ADMIN_EMAIL, "super_admin")
     IN /\ res.outcome = "returned" => users_id_seq <= MaxUserSerial
        /\ users' = res.users
        /\ users_id_seq' = res.seq
        /\ server' = IF res.outcome = "returned"
                     THEN [server EXCEPT !.pc = "createMainDatabase",
                                         !.user = Some(users_id_seq)]
                     ELSE [server EXCEPT !.pc = "listen"]
  /\ UNCHANGED <<requests, user_databases, databases, databases_id_seq, result, creating>>

\* Database.createMainDatabase(user.id): the database named main the user
\* is linked to, or Database.create({name: 'main', url: 'main'}); what create
\* throws is rethrown and startServer's catch ends the process
CreateMainDatabase ==
  /\ server.pc = "createMainDatabase"
  /\ LET userDb == {d \in databases :
                      /\ d.url = MainUrl
                      /\ \E m \in user_databases :
                           m.database_id = d.id /\ m.user_id = server.user[1]}
         res == databaseCreate(databases, databases_id_seq, MainUrl)
     IN IF userDb # {}
        THEN /\ server' = [server EXCEPT !.pc = "addUserToDatabase",
                                         !.mainDb = Some((CHOOSE d \in userDb : TRUE).id)]
             /\ UNCHANGED <<databases, databases_id_seq>>
        ELSE /\ res.outcome = "returned" => databases_id_seq <= MaxDbId
             /\ databases' = res.databases
             /\ databases_id_seq' = res.seq
             /\ server' = IF res.outcome = "returned"
                          THEN [server EXCEPT !.pc = "addUserToDatabase",
                                              !.mainDb = Some(databases_id_seq)]
                          ELSE Stopped
  /\ UNCHANGED <<requests, user_databases, users, users_id_seq, result, creating>>

\* Database.addUserToDatabase(user.id, mainDb.id); what it throws ends the
\* process
AddUserToMainDatabase ==
  /\ server.pc = "addUserToDatabase"
  /\ LET u == server.user[1]
         d == server.mainDb[1]
         fk == ForeignKeysHold(users, databases, u, d)
         after == IF fk THEN addUserToDatabase(user_databases, u, d, "admin")
                  ELSE user_databases
     IN /\ user_databases' = after
        /\ server' = IF fk /\ after # user_databases
                     THEN [server EXCEPT !.pc = "listen"]
                     ELSE Stopped
  /\ UNCHANGED <<requests, users, databases, users_id_seq, databases_id_seq, result,
                 creating>>

\* app.listen(PORT)
Listen ==
  /\ server.pc = "listen"
  /\ server' = Listening
  /\ UNCHANGED <<requests, user_databases, users, databases, users_id_seq,
                 databases_id_seq, result, creating>>

\* the process ends (it is killed, or its machine restarts), at any point
\* of the startup or while it listens
ProcessEnds ==
  /\ server.pc # "stopped"
  /\ server' = Stopped
  /\ UNCHANGED <<requests, user_databases, users, databases, users_id_seq,
                 databases_id_seq, result, creating>>

\* POST /auth/register: User.register({...req.body}), role defaulting to user
AuthRegister(email) ==
  /\ server.pc = "listening"
  /\ LET res == register(users, users_id_seq, email, "user")
     IN /\ res.outcome = "returned" => users_id_seq <= MaxUserSerial
        /\ users' = res.users
        /\ users_id_seq' = res.seq
  /\ UNCHANGED <<requests, user_databases, databases, databases_id_seq, result, process>>

\* DELETE /users/:email, its gate passed: User.remove(req.params.email)
DeleteUser(email) ==
  /\ server.pc = "listening"
  /\ UserRemove(email, FALSE)

\* DELETE /databases/:id, its gate passed: Database.remove(req.params.id)
DeleteDatabase(id) ==
  /\ server.pc = "listening"
  /\ DatabaseRemove(id, FALSE)

\* the tables as pos-schema.sql creates them, the server not started
StartInit ==
  /\ pc = [r \in Slots |-> "idle"]
  /\ request = [r \in Slots |-> NoRequest]
  /\ locals = [r \in Slots |-> [user |-> None]]
  /\ pending = [r \in Slots |-> None]
  /\ lookup = [r \in Slots |-> None]
  /\ log = [r \in Slots |-> <<>>]
  /\ response = [r \in Slots |-> None]
  /\ user_databases = {}
  /\ users = {}
  /\ users_id_seq = 1
  /\ databases = {}
  /\ databases_id_seq = 1
  /\ result = None
  /\ server = Stopped
  /\ creating = NoCalls

StartNext ==
  \/ StartServer
  \/ InitializeSuperAdminSelect
  \/ InitializeSuperAdminRegister
  \/ CreateMainDatabase
  \/ AddUserToMainDatabase
  \/ Listen
  \/ ProcessEnds
  \/ \E e \in Emails : AuthRegister(e)
  \/ \E e \in Emails : DeleteUser(e)
  \/ \E d \in DbIds : DeleteDatabase(d)

StartSpec == StartInit /\ [][StartNext]_vars

\* ------------------------------------------------------- reading the state
GateSignals(r) == {i \in 1..Len(log[r]) : log[r][i].mw = request[r].gate}
\* the gate of the request has signalled
Decided(r) == GateSignals(r) # {}
\* the gate let the request proceed
Passed(r) == \E i \in GateSignals(r) : log[r][i].err = None
HandlerRan(r) == \E i \in 1..Len(log[r]) : log[r][i].mw = "handler"
\* the gate failed the request with an UnauthorizedError
Denied(r) ==
  \E i \in GateSignals(r) :
    /\ log[r][i].err # None
    /\ log[r][i].err[1].status = Some(UnauthorizedStatus)
Identity(r) == locals[r].user
\* the request carries a token that createToken issued
FromCreateToken(r) ==
  /\ request[r].authorization # None
  /\ \E u \in UserRows : request[r].authorization[1].tok = createToken(u)

\* C1: ensureDatabaseUser never lets a request proceed whose identity comes
\* from a token issued by createToken, whatever the membership relation
\* holds: it neither issues the membership query nor reaches the handler.
C1_CreateTokenNeverMember ==
  \A r \in Slots :
    (request[r].gate = "ensureDatabaseUser" /\ FromCreateToken(r))
      => /\ pc[r] \notin {"lookup", "handler"}
         /\ lookup[r] = None
         /\ ~Passed(r)
         /\ ~HandlerRan(r)

\* a createToken token was verified, the database-id header names a database
\* the relation has rows for, and the request was still refused
C1_Witness ==
  /\ request["req"].gate = "ensureDatabaseUser"
  /\ FromCreateToken("req")
  /\ Identity("req") # None
  /\ request["req"].dbIdHeader = Some("1")
  /\ \E row \in user_databases : row.database_id = 1
  /\ pc["req"] = "done"
  /\ Denied("req")

\* C2: authenticateJWT never fails the request: once it has run, it has
\* signalled exactly once, by next() with no error, whatever the header was.
C2_AuthenticateNeverFails ==
  \A r \in Slots :
    pc[r] \notin {"idle", "authenticateJWT"}
      => /\ Cardinality({i \in 1..Len(log[r]) : log[r][i].mw = "authenticateJWT"}) = 1
         /\ log[r][1] = [mw |-> "authenticateJWT", via |-> "next", err |-> None]

WronglySigned(r) ==
  /\ request[r].authorization # None
  /\ request[r].authorization[1].tok.wellformed
  /\ request[r].authorization[1].tok.key # SECRET_KEY

\* a request with a wrongly signed token and one with no header have both
\* gone through authenticateJWT
C2_Witness ==
  /\ WronglySigned("req")
  /\ pc["req"] = "gate"
  /\ request["probe"].authorization = None
  /\ pc["probe"] = "gate"

\* C3: a request with a well-formed but wrongly signed token gets no identity
\* and ends exactly as the same request sent with no Authorization header:
\* same signals of every layer, same response.
C3_WrongSignatureAsNoHeader ==
  /\ \A r \in Slots :
       (WronglySigned(r) /\ pc[r] \notin {"idle", "authenticateJWT"}) => Identity(r) = None
  /\ (/\ WronglySigned("req")
      /\ request["probe"] = [request["req"] EXCEPT !.authorization = None]
      /\ pc["req"] = "done"
      /\ pc["probe"] = "done")
       => /\ locals["req"] = locals["probe"]
          /\ log["req"] = log["probe"]
          /\ response["req"] = response["probe"]

\* both requests are answered; the wrongly signed token claimed super_admin
\* on a route for super admins
C3_Witness ==
  /\ WronglySigned("req")
  /\ request["req"].authorization[1].pre = BearerSp
  /\ request["req"].authorization[1].tok.payload.role = Some("super_admin")
  /\ request["req"].gate = "ensureSuperAdmin"
  /\ pc["req"] = "done"
  /\ pc["probe"] = "done"
  /\ Denied("req")

\* C4: ensureLoggedIn lets the request proceed iff an identity is attached
\* and its email is a non-empty string; a request with no Authorization
\* header is refused with an UnauthorizedError and the handler does not run.
C4_LoggedInIffEmail ==
  \A r \in Slots :
    (request[r].gate = "ensureLoggedIn" /\ Decided(r))
      => /\ Passed(r) <=> (/\ Identity(r) # None
                           /\ Identity(r)[1].email # None
                           /\ Identity(r)[1].email[1] # "")
         /\ request[r].authorization = None => (Denied(r) /\ ~HandlerRan(r))
         /\ ~Passed(r) => Denied(r)

\* an identity with an empty email was refused, and so was the request
\* with no header
C4_Witness ==
  /\ request["req"].gate = "ensureLoggedIn"
  /\ Identity("req") # None
  /\ Identity("req")[1].email = Some("")
  /\ Denied("req")
  /\ pc["probe"] = "done"
  /\ Denied("probe")

\* a validly signed token presented as "Bearer <token>"
ValidBearer(r) ==
  /\ request[r].authorization # None
  /\ request[r].authorization[1].pre = BearerSp
  /\ request[r].authorization[1].tok.wellformed
  /\ request[r].authorization[1].tok.key = SECRET_KEY

\* C5: ensureSuperAdmin passes every request with a validly signed token
\* whose role is super_admin, and refuses every other role and every request
\* with no identity with an UnauthorizedError.
C5_SuperAdminOnly ==
  \A r \in Slots :
    (request[r].gate = "ensureSuperAdmin" /\ Decided(r))
      => /\ (ValidBearer(r)
             /\ request[r].authorization[1].tok.payload.role = Some("super_admin"))
               => Passed(r)
         /\ (Identity(r) = None \/ Identity(r)[1].role # Some("super_admin"))
               => (Denied(r) /\ ~Passed(r) /\ ~HandlerRan(r))

\* a standard user with a valid token was refused
C5_Witness ==
  /\ request["req"].gate = "ensureSuperAdmin"
  /\ ValidBearer("req")
  /\ Identity("req") # None
  /\ Identity("req")[1].role = Some("user")
  /\ pc["req"] = "done"
  /\ Denied("req")

\* C6: on a route with an :email parameter ensureCorrectUser passes iff the
\* identity's email is that very string; an email differing only in case
\* and an absent identity are refused.
C6_CorrectUserExactMatch ==
  \A r \in Slots :
    (request[r].gate = "ensureCorrectUser" /\ Decided(r))
      => /\ Passed(r) <=> (/\ Identity(r) # None
                           /\ Identity(r)[1].email # None
                           /\ Identity(r)[1].email[1] = request[r].params.email[1])
         /\ ~Passed(r) => (Denied(r) /\ ~HandlerRan(r))

\* the identity's email differs from the parameter only in case: refused
C6_Witness ==
  /\ request["req"].gate = "ensureCorrectUser"
  /\ Identity("req") # None
  /\ Identity("req")[1].email = Some("A@x.io")
  /\ request["req"].params.email = Some("a@x.io")
  /\ pc["req"] = "done"
  /\ Denied("req")

\* C7: ensureSuperAdminOrCorrectUser decides as ensureSuperAdmin or
\* ensureCorrectUser would on the same identity and parameters.
C7_EitherOfTheTwo ==
  \A r \in Slots :
    (request[r].gate = "ensureSuperAdminOrCorrectUser" /\ Decided(r))
      => /\ Passed(r) <=> (\/ ensureSuperAdmin(Identity(r)) = Proceed
                           \/ ensureCorrectUser(Identity(r), request[r].params) = Proceed)
         /\ ~Passed(r) => Denied(r)

\* a standard user passed by matching the parameter, on the route where
\* ensureSuperAdmin alone refuses
C7_Witness ==
  /\ request["req"].gate = "ensureSuperAdminOrCorrectUser"
  /\ Identity("req") # None
  /\ Identity("req")[1].role = Some("user")
  /\ Identity("req")[1].email = request["req"].params.email
  /\ Passed("req")
  /\ pc["req"] = "done"

\* C8: ensureDatabaseUser passes exactly when the identity has a numeric id,
\* a resource identifier is present in a route parameter or in the
\* database-id header, and the relation has a row for that pair: when all
\* three hold as the predicate runs it does not refuse before asking the
\* relation, when the id or the resource identifier is missing it refuses,
\* and an answered query passes iff the row is there.
ResourceId(r) ==
  IF TruthyText(request[r].dbIdHeader)
  THEN request[r].dbIdHeader
  ELSE request[r].params.databaseId
HasRow(userId, databaseId) ==
  \E row \in user_databases :
    row.user_id = userId /\ row.database_id = ToInteger(databaseId)
C8_MemberIffIdResourceAndRow ==
  [][\A r \in Slots :
       /\ (pc[r] = "gate" /\ request[r].gate = "ensureDatabaseUser" /\ pc'[r] # "gate")
            => LET idPresent == TruthyNumber(Field(Identity(r), "id"))
                   resourcePresent == TruthyText(ResourceId(r))
               IN /\ (idPresent /\ resourcePresent
                      /\ HasRow(Identity(r)[1].id[1], ResourceId(r)[1]))
                       => pc'[r] = "lookup"
                  /\ ~(idPresent /\ resourcePresent) => pc'[r] = "error"
       /\ (pc[r] = "lookup" /\ pc'[r] # "lookup" /\ lookup'[r][1].state = "answered")
            => ((pc'[r] = "handler")
                  <=> HasRow(lookup[r][1].userId, lookup[r][1].databaseId))
    ]_vars

LookupFailed(r) == lookup[r] # None /\ lookup[r][1].state = "failed"

\* C9: when the membership query fails because the storage is unreachable,
\* isUserLinkedToDatabase throws that error, ensureDatabaseUser hands it to
\* the error handler, the handler does not run and the response is a 5xx,
\* not the 401 of a refusal.
C9_StorageFailureIsNotDenial ==
  \A r \in Slots :
    LookupFailed(r)
      => /\ pc[r] \in {"error", "done"}
         /\ log[r][Len(log[r])] =
              [mw |-> "ensureDatabaseUser", via |-> "next", err |-> Some(StorageError)]
         /\ pending[r] = Some(StorageError)
         /\ ~Denied(r)
         /\ ~HandlerRan(r)
         /\ pc[r] = "done" => (response[r][1].status >= 500 /\ response[r][1].status # 401)

\* a member's lookup failed and the request was answered
C9_Witness ==
  /\ LookupFailed("req")
  /\ \E row \in user_databases :
       /\ row.user_id = lookup["req"][1].userId
       /\ row.database_id = ToInteger(lookup["req"][1].databaseId)
  /\ pc["req"] = "done"
  /\ response["req"] # None

\* C10: whenever an authorization predicate refuses a request (it does not
\* let it proceed, and its membership query did not fail), the request ends
\* with status 401; and whenever a predicate does not let the request
\* proceed, the route handler never runs.
C10_RefusalIs401AndNoHandler ==
  \A r \in Slots :
    (request[r].gate \in Gates /\ Decided(r) /\ ~Passed(r))
      => /\ pc[r] \in {"error", "done"}
         /\ ~HandlerRan(r)
         /\ ~LookupFailed(r)
              => /\ Denied(r)
                 /\ pending[r] # None
                 /\ pending[r][1].status = Some(401)
                 /\ pc[r] = "done" => response[r][1].status = 401

\* a request was refused after an answered membership query, and the probe
\* was refused before any query
C10_Witness ==
  /\ request["req"].gate = "ensureDatabaseUser"
  /\ lookup["req"] # None
  /\ lookup["req"][1].state = "answered"
  /\ ~Passed("req")
  /\ pc["req"] = "done"
  /\ response["req"][1].status = 401
  /\ pc["probe"] = "done"
  /\ response["probe"][1].status = 401

\* the request was refused by ensureDatabaseUser itself: it did not let the
\* request proceed, its membership query did not fail, and the response is
\* sent
RefusedMember(r) ==
  /\ request[r].gate = "ensureDatabaseUser"
  /\ Decided(r)
  /\ ~Passed(r)
  /\ ~LookupFailed(r)
  /\ pc[r] = "done"
\* why ensureDatabaseUser refused the request
RefusalCause(r) ==
  IF ~TruthyNumber(Field(Identity(r), "id")) THEN "no identity id"
  ELSE IF ~TruthyText(request[r].dbIdHeader) THEN "no resource id"
  ELSE "no membership row"

\* C11 as stated: the three causes for which ensureDatabaseUser refuses are
\* indistinguishable to the caller, that is any two refused requests receive
\* the same response.
C11_SameResponseForEveryCause ==
  \A r1, r2 \in Slots :
    (RefusedMember(r1) /\ RefusedMember(r2)) => response[r1] = response[r2]

\* C11: the three causes for which ensureDatabaseUser refuses are answered
\* with the same status, the status of an UnauthorizedError, but the body
\* of the response carries the message of the cause, a different one for
\* each, so the caller can tell the causes apart.
C11_SameStatusMessagePerCause ==
  /\ \A r \in Slots :
       RefusedMember(r)
         => /\ Some(response[r][1].status) = UnauthorizedError("").status
            /\ response[r][1].message =
                 Some(CASE RefusalCause(r) = "no identity id" -> "User authentication required."
                        [] RefusalCause(r) = "no resource id" -> "Database connection required."
                        [] OTHER -> "User not authorized to access this database.")
  /\ \A r1, r2 \in Slots :
       (RefusedMember(r1) /\ RefusedMember(r2))
         => /\ response[r1][1].status = response[r2][1].status
            /\ (response[r1][1].message = response[r2][1].message
                  <=> RefusalCause(r1) = RefusalCause(r2))

\* a request with an identity id and no database-id header, and the same
\* request without its identity, were both refused and answered
C11_Witness ==
  /\ RefusedMember("req")
  /\ RefusedMember("probe")
  /\ RefusalCause("req") = "no resource id"
  /\ RefusalCause("probe") = "no identity id"
  /\ response["req"] # response["probe"]

\* the request carries, after "Bearer ", the token createToken issues for u,
\* and authenticateJWT has run on it
VerifiedTokenOf(r, u) ==
  /\ request[r].authorization # None
  /\ request[r].authorization[1].pre = BearerSp
  /\ request[r].authorization[1].tok = createToken(u)
  /\ pc[r] \notin {"idle", "authenticateJWT"}

\* C12 as stated: verifying the token createToken issued for an email and a
\* role returns exactly that email and that role, nothing added or changed.
C12_RoundTripExact ==
  \A r \in Slots, u \in UserRows :
    VerifiedTokenOf(r, u)
      => Identity(r) = Some([email |-> Some(u.email), role |-> Some(u.role),
                             id |-> None, iat |-> None])

\* C12: verifying the token createToken issued for an email and a role
\* returns that email and that role unchanged, no id, and in addition the
\* iat claim (time of issue) that jwt.sign puts in every payload.
C12_RoundTripPlusIat ==
  \A r \in Slots, u \in UserRows :
    VerifiedTokenOf(r, u)
      => /\ Identity(r) # None
         /\ Identity(r)[1].email = Some(u.email)
         /\ Identity(r)[1].role = Some(u.role)
         /\ Identity(r)[1].id = None
         /\ Identity(r)[1].iat = Some(Now)

\* the token of a super admin was verified and the identity attached
C12_Witness ==
  /\ VerifiedTokenOf("req", [id |-> 1, email |-> "A@x.io", role |-> "super_admin"])
  /\ Identity("req") # None
  /\ Identity("req")[1].iat # None

LowerBearerSp == <<"b", "e", "a", "r", "e", "r", " ">>
UpperBearerSp == <<"B", "E", "A", "R", "E", "R", " ">>
\* pre is the word bearer in some casing, followed by one space
CasingOfBearer(pre) ==
  /\ Len(pre) = Len(BearerSp)
  /\ \A i \in 1..Len(pre) : pre[i] \in {LowerBearerSp[i], UpperBearerSp[i]}
\* authenticateJWT has run on a request whose header is a casing of bearer
\* followed by a token signed with SECRET_KEY
SchemeAndValidToken(r) ==
  /\ request[r].authorization # None
  /\ CasingOfBearer(request[r].authorization[1].pre)
  /\ jwtVerify(request[r].authorization[1].tok, SECRET_KEY) # None
  /\ pc[r] \notin {"idle", "authenticateJWT"}

\* C13 as stated: for every casing of the scheme word followed by a validly
\* signed token, authenticateJWT attaches the token's claims.
C13_AnyCasingAttaches ==
  \A r \in Slots :
    SchemeAndValidToken(r) => Identity(r) = Some(request[r].authorization[1].tok.payload)

\* C13: the scheme word is matched for the casings "Bearer" and "bearer"
\* only; with one of them and a validly signed token authenticateJWT
\* attaches the token's claims, with any other casing (such as "BEARER") it
\* attaches nothing and the request goes on without identity.
C13_OnlyFirstLetterCase ==
  \A r \in Slots :
    SchemeAndValidToken(r)
      => /\ request[r].authorization[1].pre \in {BearerSp, LowerBearerSp}
              => Identity(r) = Some(request[r].authorization[1].tok.payload)
         /\ request[r].authorization[1].pre \notin {BearerSp, LowerBearerSp}
              => Identity(r) = None
         /\ log[r][1] = [mw |-> "authenticateJWT", via |-> "next", err |-> None]

\* a validly signed token sent after "BEARER " was not attached and the
\* request was refused
C13_Witness ==
  /\ SchemeAndValidToken("req")
  /\ request["req"].authorization[1].pre = UpperBearerSp
  /\ Identity("req") = None
  /\ request["req"].gate = "ensureLoggedIn"
  /\ Denied("req")
  /\ pc["req"] = "done"

\* authenticateJWT has signalled for the request
IdentityResolved(r) == \E i \in 1..Len(log[r]) : log[r][i].mw = "authenticateJWT"

\* C18: for every request authenticateJWT has completed, with or without
\* an identity attached, before an authorization predicate or the route
\* handler runs for it: a predicate, a membership query or a handler is
\* never about to run, and has never signalled, on a request for which
\* authenticateJWT has not signalled first.
C18_IdentityResolutionFirst ==
  \A r \in Slots :
    /\ pc[r] \in {"gate", "lookup", "handler"}
         => /\ IdentityResolved(r)
            /\ log[r][1].mw = "authenticateJWT"
    /\ \A i \in 1..Len(log[r]) :
         log[r][i].mw # "authenticateJWT"
           => \E j \in 1..(i - 1) : log[r][j].mw = "authenticateJWT"
    /\ Cardinality({i \in 1..Len(log[r]) : log[r][i].mw = "authenticateJWT"}) <= 1

\* a request with a token and one without were both resolved, then judged
\* by their predicate, and one of them reached its handler
C18_Witness ==
  /\ Identity("req") # None
  /\ Identity("probe") = None
  /\ \A r \in Slots :
       /\ Len(log[r]) >= 2
       /\ log[r][1].mw = "authenticateJWT"
       /\ log[r][2].mw = request[r].gate
  /\ HandlerRan("req")

\* C19: PATCH /users/:email is permitted for the user named by :email or
\* for a super admin: a request whose identity is a super admin, or whose
\* identity's email is :email, passes the gate of the route and reaches the
\* update handler.
C19_PatchUserByOwnerOrSuperAdmin ==
  \A r \in Slots :
    (/\ request[r].route = "PATCH /users/:email"
     /\ Decided(r)
     /\ \/ Field(Identity(r), "role") = Some("super_admin")
        \/ Field(Identity(r), "email") = request[r].params.email)
      => /\ Passed(r)
         /\ pc[r] \in {"handler", "done"}
         /\ pc[r] = "done" => HandlerRan(r)

\* C14: isUserLinkedToDatabase answers from the relation as it is when the
\* query runs: an answered query lets the request pass exactly when the row
\* (user, database) is there at that moment, whatever additions and removals
\* came before, so a check made after the row was removed is refused by
\* ensureDatabaseUser.
C14_LookupReadsCurrentRelation ==
  [][\A r \in Slots :
       (pc[r] = "lookup" /\ pc'[r] # "lookup" /\ lookup'[r][1].state = "answered")
         => LET rowThere ==
                  \E row \in user_databases :
                    /\ row.user_id = lookup[r][1].userId
                    /\ row.database_id = ToInteger(lookup[r][1].databaseId)
            IN /\ rowThere
                    => /\ pc'[r] = "handler"
                       /\ pending'[r] = None
               /\ ~rowThere
                    => /\ pc'[r] = "error"
                       /\ pending'[r] =
                            Some(UnauthorizedError("User not authorized to access this database."))
    ]_vars

\* a member's request passed ensureDatabaseUser; the row was then removed
\* (with its user) and the same request, sent again, was refused after an
\* answered query
C14_Witness ==
  /\ request["req"].gate = "ensureDatabaseUser"
  /\ Passed("req")
  /\ pc["req"] = "done"
  /\ request["probe"] = request["req"]
  /\ lookup["probe"] # None
  /\ lookup["probe"][1].state = "answered"
  /\ ~Passed("probe")
  /\ Denied("probe")
  /\ ~\E row \in user_databases : row.user_id = lookup["probe"][1].userId

\* the last observed call
Last == result[1]
\* this step is an observed call of op
Called(op) == result' # None /\ result'[1].op = op
OnePerPair(table) ==
  \A m1, m2 \in table :
    (m1.user_id = m2.user_id /\ m1.database_id = m2.database_id) => m1 = m2

\* C15: user_databases never holds two rows for one (user, database) pair;
\* a call of addUserToDatabase for a pair that already has its row fails
\* (the INSERT is one statement, so calls for the same pair take effect one
\* after the other) and leaves the table as it was, and a call that returns
\* has added exactly the row of its pair.
C15_OneRowPerPair ==
  [][/\ OnePerPair(user_databases')
     /\ Called("Database.addUserToDatabase")
          => LET u == result'[1].userId[1]
                 d == result'[1].databaseId[1]
                 there == \E m \in user_databases : m.user_id = u /\ m.database_id = d
             IN /\ there => /\ result'[1].outcome # "returned"
                            /\ user_databases' = user_databases
                /\ result'[1].outcome # "returned" => user_databases' = user_databases
                /\ result'[1].outcome = "returned"
                     => /\ ~there
                        /\ \E m \in user_databases' :
                             /\ m.user_id = u /\ m.database_id = d
                             /\ user_databases' = user_databases \cup {m}
    ]_vars

\* a second insertion for a pair that has its row was refused
C15_Witness ==
  /\ result # None
  /\ Last.op = "Database.addUserToDatabase"
  /\ Last.outcome = "unique_violation"
  /\ \E m \in user_databases :
       m.user_id = Last.userId[1] /\ m.database_id = Last.databaseId[1]
  /\ Cardinality(user_databases) >= 2

\* C16 as stated: Database.remove on an existing database that has rows in
\* user_databases succeeds, and afterwards no row refers to that database.
C16_RemoveCascades ==
  [][Called("Database.remove")
       => LET d == result'[1].databaseId[1]
          IN (/\ \E row \in databases : row.id = d
              /\ \E m \in user_databases : m.database_id = d)
               => /\ result'[1].outcome = "returned"
                  /\ ~\E row \in databases' : row.id = d
                  /\ ~\E m \in user_databases' : m.database_id = d
    ]_vars

\* every row of user_databases refers to a user and to a database that exist
ReferencesHold(userTable, databaseTable, memberTable) ==
  \A m \in memberTable : ForeignKeysHold(userTable, databaseTable, m.user_id, m.database_id)

\* C16: Database.remove on an existing database that has rows in
\* user_databases fails and leaves the database and the rows in place
\* (ON DELETE RESTRICT); on an existing database without such rows it
\* removes the database. The rows of user_databases go by cascade only when
\* their user is removed. So no row ever refers to a database, or to a
\* user, that is not there.
C16_RemoveRestricted ==
  [][/\ ReferencesHold(users', databases', user_databases')
     /\ Called("Database.remove")
          => LET d == result'[1].databaseId[1]
                 exists == \E row \in databases : row.id = d
                 referred == \E m \in user_databases : m.database_id = d
             IN /\ (exists /\ referred)
                     => /\ result'[1].outcome = "foreign_key_violation"
                        /\ databases' = databases
                        /\ user_databases' = user_databases
                /\ (exists /\ ~referred)
                     => /\ result'[1].outcome = "returned"
                        /\ databases' = {row \in databases : row.id # d}
                        /\ user_databases' = user_databases
     /\ (Called("User.remove") /\ result'[1].outcome = "returned")
          => /\ ~\E row \in users' : Some(row.email) = result'[1].email
             /\ \A m \in user_databases' : \E row \in users' : row.id = m.user_id
             /\ \A m \in user_databases \ user_databases' :
                  \E row \in users \ users' : row.id = m.user_id
    ]_vars

\* Database.remove was refused for a database that has a row in
\* user_databases, and the database is still there
C16_Witness ==
  /\ result # None
  /\ Last.op = "Database.remove"
  /\ Last.outcome = "foreign_key_violation"
  /\ \E m \in user_databases : m.database_id = Last.databaseId[1]
  /\ \E row \in databases : row.id = Last.databaseId[1]

\* C17: a token createToken issued stays valid while SECRET_KEY is the
\* same: each time it is presented, authenticateJWT attaches the email and
\* the role it was issued for, whatever the users, databases and
\* user_databases tables hold by then, the row of the user it names removed
\* included; the same token presented twice gives the same identity.
C17_TokenOutlivesItsUser ==
  \A u \in UserRows :
    /\ \A r \in Slots :
         VerifiedTokenOf(r, u)
           => /\ Field(Identity(r), "email") = Some(u.email)
              /\ Field(Identity(r), "role") = Some(u.role)
    /\ (VerifiedTokenOf("req", u) /\ VerifiedTokenOf("probe", u))
         => Identity("probe") = Identity("req")

\* the token of the user a@x.io let a request through; the user was removed,
\* and the same request sent again got the same identity and passed its gate
C17_Witness ==
  /\ \E u \in UserRows :
       /\ u.email = "a@x.io"
       /\ VerifiedTokenOf("req", u)
       /\ VerifiedTokenOf("probe", u)
  /\ Passed("req")
  /\ pc["req"] = "done"
  /\ users = {}
  /\ Identity("probe") # None
  /\ Passed("probe")
  /\ log["probe"][1].mw = "authenticateJWT"

\* the identity is the user the route is about: the user whose id is
\* :userId, or a user with a row of user_databases for the database :id
CorrectUser(r) ==
  \E row \in users :
    /\ Some(row.email) = Field(Identity(r), "email")
    /\ \/ /\ request[r].params.userId # None
          /\ row.id = ToInteger(request[r].params.userId[1])
       \/ /\ request[r].params.id # None
          /\ \E m \in user_databases :
               /\ m.user_id = row.id
               /\ m.database_id = ToInteger(request[r].params.id[1])
DocumentedOwnerRoutes ==
  {"GET /databases/user/:userId", "GET /databases/:id", "PATCH /databases/:id",
   "DELETE /databases/:id"}

\* C20: on the database routes documented as "superAdmin or correct user" a
\* request whose identity has the standard role and is the correct user
\* passes the gate of the route, and one whose identity has the standard
\* role and is not the correct user is refused.
C20_OwnerReachesDatabaseRoutes ==
  [][\A r \in Slots :
       (/\ request[r].route \in DocumentedOwnerRoutes
        /\ Field(Identity(r), "role") = Some("user")
        /\ pc[r] = "gate"
        /\ pc'[r] # "gate")
         => (pc'[r] = "handler" <=> CorrectUser(r))
    ]_vars

\* C21: when the server starts listening a user of role super_admin exists;
\* over any number of startups, those after an earlier startup ended half
\* way included, initializeSuperAdmin registers a super admin only when
\* there is none, and there is never more than one user of role
\* super_admin with the email of the startup.
C21_ListeningHasSuperAdmin ==
  [][/\ (server.pc # "listening" /\ server'.pc = "listening")
          => SuperAdmins(users') # {}
     /\ (server.pc = "register" /\ users' # users)
          => /\ SuperAdmins(users) = {}
             /\ Cardinality(SuperAdmins(users')) = 1
     /\ Cardinality({row \in SuperAdmins(users') : row.email = SUPER_ADMIN_EMAIL}) <= 1
    ]_vars

UniqueUrls(databaseTable) ==
  \A d1, d2 \in databaseTable : d1.url = d2.url => d1 = d2

\* C22: no two rows of the databases table ever share a url: Database.create
\* goes past its duplicate check only for a url no row has, a call it
\* refuses with BadRequestError leaves the table unchanged, and the urls
\* stay distinct under every interleaving of Database.create and
\* Database.update calls.
C22_UrlsUnique ==
  [][/\ UniqueUrls(databases')
     /\ \A c \in Callers :
          (creating[c] = None /\ creating'[c] # None)
            => ~\E row \in databases : row.url = creating'[c][1]
     /\ (Called("Database.create") /\ result'[1].outcome = "BadRequestError")
          => databases' = databases
    ]_vars

====
